---- MODULE Spec2Model ----
\* Model of stock_optimizer_app.py: the length parser (parse_length), the
\* length formatter (format_feet_inches) and the best-fit-decreasing packing
\* engine (fit_cuts_to_stock).
\*
\* Lengths of the packing engine are integers counted in ticks, Resolution
\* ticks to 1e-4 ft, so that round(x, 4) is a real rounding step.  A float
\* whose exact value lies half way between two 4-decimal numbers rounds either
\* way depending on its binary representation error, so a tie is a
\* nondeterministic choice between the two neighbours.
EXTENDS Integers, Sequences, FiniteSets, TLC

VARIABLES
    pc,              \* position of the run being modelled
    stock_length,    \* fit_cuts_to_stock argument (ticks)
    kerf,            \* fit_cuts_to_stock argument (ticks)
    cuts,            \* fit_cuts_to_stock argument (sequence of ticks)
    cuts_with_kerf,  \* sorted list of <<cut + kerf, cut>> still to be placed
    bins,            \* list of lists of original cuts
    bin_usage,       \* list of used lengths, one per bin
    best_fit_index,  \* bin chosen by the last placement (0: a new bin was opened)
    wastes,          \* returned list
    used_lengths,    \* returned list
    outcome,         \* "none" while running, "returned" or "error" at the end
    wider_stock,     \* a second, longer stock length for the same kerf and cuts
    wider_bins,      \* the bins of the run with wider_stock
    length_str,      \* parse_length argument
    fraction_spaces, \* whether Fraction() of the running Python takes "1 / 2"
    parsed,          \* what parse_length returned or raised
    value,           \* format_feet_inches argument (feet, a rational)
    formatted,       \* what format_feet_inches computed and returned
    reparsed,        \* parse_length of the formatted text
    canon            \* the feet, inches and fraction length_str was written from

packVars == <<pc, stock_length, kerf, cuts, cuts_with_kerf, bins, bin_usage,
              best_fit_index, wastes, used_lengths, outcome>>

monoVars == <<wider_stock, wider_bins>>

textVars == <<length_str, fraction_spaces, parsed, value, formatted, reparsed, canon>>

vars == <<packVars, monoVars, textVars>>

-----------------------------------------------------------------------------
\* Bounds of the packing model.
MaxStock == 7
MaxKerf == 1
\* The cut lengths the inputs are drawn from (ticks).
CutSizes == {1, 2, 3, 5}
MaxCuts == 4
Resolution == 2

-----------------------------------------------------------------------------
\* Helpers

RECURSIVE SumSeq(_)
SumSeq(s) == IF s = <<>> THEN 0 ELSE Head(s) + SumSeq(Tail(s))

Abs(x) == IF x < 0 THEN 0 - x ELSE x

\* Python tuple comparison of (cut_with_k, original_cut) pairs.
TupleLess(a, b) == a[1] < b[1] \/ (a[1] = b[1] /\ a[2] < b[2])

\* Insert tuple t into a list sorted in descending order, after equal items.
RECURSIVE InsertDesc(_, _)
InsertDesc(t, s) ==
    IF s = <<>> THEN <<t>>
    ELSE IF TupleLess(Head(s), t) THEN <<t>> \o s
    ELSE <<Head(s)>> \o InsertDesc(t, Tail(s))

\* list.sort(reverse=True): a stable descending sort.
RECURSIVE SortDesc(_)
SortDesc(s) ==
    IF s = <<>> THEN <<>>
    ELSE InsertDesc(s[Len(s)], SortDesc(SubSeq(s, 1, Len(s) - 1)))

\* The outcomes of round(x, 4) for x ticks: the nearest multiples of
\* Resolution (both neighbours on a tie).
Round4(x) ==
    LET lo == (x \div Resolution) * Resolution
        hi == lo + Resolution
    IN  IF x = lo THEN {x}
        ELSE IF 2 * (x - lo) < Resolution THEN {lo}
        ELSE IF 2 * (x - lo) > Resolution THEN {hi}
        ELSE {lo, hi}

\* All lists rounding the list xs element by element.
RoundAll(xs) ==
    {r \in [1..Len(xs) -> UNION {Round4(xs[i]) : i \in 1..Len(xs)}] :
        \A i \in 1..Len(xs) : r[i] \in Round4(xs[i])}

-----------------------------------------------------------------------------
\* Text.  A string is a sequence of one-character strings.  A rational is a
\* pair <<numerator, denominator>> in lowest terms.

RECURSIVE Gcd(_, _)
Gcd(a, b) == IF b = 0 THEN a ELSE Gcd(b, a % b)

\* Fraction(n, d) for n >= 0 and d > 0: the pair in lowest terms.
Frac(n, d) == LET g == Gcd(n, d) IN <<n \div g, d \div g>>

RatAdd(a, b) == Frac(a[1] * b[2] + b[1] * a[2], a[2] * b[2])
RatDiv(a, k) == Frac(a[1], a[2] * k)

Digits == <<"0", "1", "2", "3", "4", "5", "6", "7", "8", "9">>
IsDigit(c) == \E i \in 1..Len(Digits) : Digits[i] = c
DigitVal(c) == (CHOOSE i \in 1..Len(Digits) : Digits[i] = c) - 1
IsSpace(c) == c = " "

\* int(text) for a string of digits.
RECURSIVE IntOf(_)
IntOf(t) == IF t = <<>> THEN 0 ELSE IntOf(SubSeq(t, 1, Len(t) - 1)) * 10 + DigitVal(t[Len(t)])

\* str(n) for n >= 0.
RECURSIVE StrOf(_)
StrOf(n) == IF n < 10 THEN <<Digits[n + 1]>> ELSE StrOf(n \div 10) \o <<Digits[(n % 10) + 1]>>

RECURSIVE Pow10(_)
Pow10(k) == IF k = 0 THEN 1 ELSE 10 * Pow10(k - 1)

\* str.lower() on the letters the inputs use.
LowerChar(c) ==
    CASE c = "F" -> "f"
      [] c = "T" -> "t"
      [] c = "I" -> "i"
      [] c = "N" -> "n"
      [] OTHER -> c

Lower(t) == [i \in 1..Len(t) |-> LowerChar(t[i])]

\* str.strip().
RECURSIVE LStrip(_)
LStrip(t) == IF t # <<>> /\ IsSpace(Head(t)) THEN LStrip(Tail(t)) ELSE t
RECURSIVE RStrip(_)
RStrip(t) == IF t # <<>> /\ IsSpace(t[Len(t)]) THEN RStrip(SubSeq(t, 1, Len(t) - 1)) ELSE t
Strip(t) == RStrip(LStrip(t))

\* str.replace(old, new): the non-overlapping occurrences from the left.
RECURSIVE Replace(_, _, _)
Replace(t, old, new) ==
    IF Len(t) < Len(old) THEN t
    ELSE IF SubSeq(t, 1, Len(old)) = old
         THEN new \o Replace(SubSeq(t, Len(old) + 1, Len(t)), old, new)
         ELSE <<Head(t)>> \o Replace(Tail(t), old, new)

\* Lines 11-21 of parse_length.
Normalize(t) ==
    LET t0 == Lower(Strip(t))
        t1 == Replace(t0, <<"f", "e", "e", "t">>, <<"'">>)
        t2 == Replace(t1, <<"f", "o", "o", "t">>, <<"'">>)
        t3 == Replace(t2, <<"f", "t">>, <<"'">>)
        t4 == Replace(t3, <<"i", "n", "c", "h", "e", "s">>, <<"\"">>)
        t5 == Replace(t4, <<"i", "n", "c", "h">>, <<"\"">>)
    IN  Replace(t5, <<"i", "n">>, <<"\"">>)

\* Regular expressions, matched the way a backtracking matcher does: Match
\* gives the ways of matching r at state st (a position and the spans of the
\* three capture groups, <<0, 0>> for a group that did not take part) in the
\* order in which the matcher tries them, so the first one is the match.
Lit(c) == [t |-> "lit", c |-> c]
Dig == [t |-> "digit"]
Ws == [t |-> "ws"]
Eos == [t |-> "eos"]
Cat(a, b) == [t |-> "cat", a |-> a, b |-> b]
Alt(a, b) == [t |-> "alt", a |-> a, b |-> b]
Opt(a) == [t |-> "opt", a |-> a]
Star(a) == [t |-> "star", a |-> a]
Plus(a) == Cat(a, Star(a))
Grp(n, a) == [t |-> "grp", n |-> n, a |-> a]

NoGroups == <<<<0, 0>>, <<0, 0>>, <<0, 0>>>>
StartState == [pos |-> 1, g |-> NoGroups]

RECURSIVE Match(_, _, _)
RECURSIVE MatchAll(_, _, _)
Match(r, s, st) ==
    CASE r.t = "lit" ->
            IF st.pos <= Len(s) /\ s[st.pos] = r.c THEN <<[st EXCEPT !.pos = @ + 1]>> ELSE <<>>
      [] r.t = "digit" ->
            IF st.pos <= Len(s) /\ IsDigit(s[st.pos]) THEN <<[st EXCEPT !.pos = @ + 1]>> ELSE <<>>
      [] r.t = "ws" ->
            IF st.pos <= Len(s) /\ IsSpace(s[st.pos]) THEN <<[st EXCEPT !.pos = @ + 1]>> ELSE <<>>
      [] r.t = "eos" ->
            IF st.pos = Len(s) + 1 THEN <<st>> ELSE <<>>
      [] r.t = "cat" -> MatchAll(r.b, s, Match(r.a, s, st))
      [] r.t = "alt" -> Match(r.a, s, st) \o Match(r.b, s, st)
      [] r.t = "opt" -> Match(r.a, s, st) \o <<st>>
      [] r.t = "star" -> MatchAll(r, s, Match(r.a, s, st)) \o <<st>>
      [] r.t = "grp" ->
            LET res == Match(r.a, s, st)
            IN  [i \in 1..Len(res) |-> [res[i] EXCEPT !.g[r.n] = <<st.pos, res[i].pos>>]]
MatchAll(r, s, sts) ==
    IF sts = <<>> THEN <<>> ELSE Match(r, s, Head(sts)) \o MatchAll(r, s, Tail(sts))

\* r"\d+\s*/\s*\d+" (line 26)
BareFractionRe == Cat(Plus(Dig), Cat(Star(Ws), Cat(Lit("/"), Cat(Star(Ws), Plus(Dig)))))

\* r"\d*\.\d+" (line 26)
BareDecimalRe == Cat(Star(Dig), Cat(Lit("."), Plus(Dig)))

\* r"(?:(\d+)')?\s*(\d+)?(?:\s*(\d+/\d+))?\s*(?:\"|$)" (line 34)
GeneralRe ==
    Cat(Opt(Cat(Grp(1, Plus(Dig)), Lit("'"))),
    Cat(Star(Ws),
    Cat(Opt(Grp(2, Plus(Dig))),
    Cat(Opt(Cat(Star(Ws), Grp(3, Cat(Plus(Dig), Cat(Lit("/"), Plus(Dig)))))),
    Cat(Star(Ws),
        Alt(Lit("\""), Eos))))))

\* re.match: the first way of matching at the start of s, <<>> for None.
ReMatch(r, s) == LET res == Match(r, s, StartState) IN IF res = <<>> THEN <<>> ELSE <<Head(res)>>

\* re.fullmatch: the first way that ends at the end of s.
ReFullMatch(r, s) ==
    LET res == Match(r, s, StartState)
        full == {i \in 1..Len(res) : res[i].pos = Len(s) + 1}
    IN  IF full = {} THEN <<>> ELSE <<res[CHOOSE i \in full : \A j \in full : i <= j]>>

\* match.group(n): the text of group n, <<>> when it did not take part.
Group(s, m, n) == SubSeq(s, m.g[n][1], m.g[n][2] - 1)

Find(s, c) == CHOOSE i \in 1..Len(s) : s[i] = c /\ \A j \in 1..(i - 1) : s[j] # c
Has(s, c) == \E i \in 1..Len(s) : s[i] = c

Ok(q) == [kind |-> "ok", n |-> q[1], d |-> q[2]]
Raised(e) == [kind |-> e, n |-> 0, d |-> 1]

\* Fraction(text) for a text that matched one of the two patterns of line 26.
\* spaces_ok says whether the Fraction of the running Python takes
\* white space around the slash (it does from Python 3.12 on).
FractionOf(s, spaces_ok) ==
    IF Has(s, "/")
    THEN LET i == Find(s, "/")
             num == Strip(SubSeq(s, 1, i - 1))
             den == Strip(SubSeq(s, i + 1, Len(s)))
         IN  IF Len(num) + Len(den) + 1 # Len(s) /\ ~spaces_ok THEN Raised("ValueError")
             ELSE IF IntOf(den) = 0 THEN Raised("ZeroDivisionError")
             ELSE Ok(Frac(IntOf(num), IntOf(den)))
    ELSE LET i == Find(s, ".")
             whole == SubSeq(s, 1, i - 1)
             decimals == SubSeq(s, i + 1, Len(s))
         IN  Ok(Frac(IntOf(whole \o decimals), Pow10(Len(decimals))))

\* Lines 34-42: the general pattern.
GeneralParse(s) ==
    LET found == ReMatch(GeneralRe, s)
    IN  IF found = <<>> THEN Raised("ValueError")
        ELSE LET m == found[1]
                 ft == IF Group(s, m, 1) # <<>> THEN IntOf(Group(s, m, 1)) ELSE 0
                 whole == IF Group(s, m, 2) # <<>> THEN IntOf(Group(s, m, 2)) ELSE 0
                 g3 == Group(s, m, 3)
             IN  IF g3 = <<>> THEN Ok(RatAdd(<<ft, 1>>, RatDiv(<<whole, 1>>, 12)))
                 ELSE LET i == Find(g3, "/")
                          num == IntOf(SubSeq(g3, 1, i - 1))
                          den == IntOf(SubSeq(g3, i + 1, Len(g3)))
                      IN  IF den = 0 THEN Raised("ZeroDivisionError")
                          ELSE Ok(RatAdd(<<ft, 1>>,
                                         RatDiv(RatAdd(<<whole, 1>>, Frac(num, den)), 12)))

\* parse_length (lines 10-44): the length in feet, or the exception raised.
parse_length(text, spaces_ok) ==
    LET s == Normalize(text)
        bare == ReFullMatch(BareFractionRe, s) # <<>> \/ ReFullMatch(BareDecimalRe, s) # <<>>
        inch == FractionOf(s, spaces_ok)
    IN  IF bare /\ inch.kind = "ok" THEN Ok(RatDiv(<<inch.n, inch.d>>, 12))
        ELSE GeneralParse(s)

-----------------------------------------------------------------------------
\* format_feet_inches

precision == 32
InchesPerFoot == 12
\* round(x, 4) counts in ten-thousandths.
TenThousand == 10000

\* The integers nearest to n / d (both neighbours on a tie: the float that
\* stands for n / d lies on either side of it).
RoundRat(n, d) ==
    LET lo == n \div d
        r == n % d
    IN  IF 2 * r < d THEN {lo}
        ELSE IF 2 * r > d THEN {lo + 1}
        ELSE {lo, lo + 1}

\* Line 47: round(value * 12, 4), in ten-thousandths of an inch (the common
\* factor is taken out first to keep the products small).
TotalInches(v) ==
    LET g == Gcd(InchesPerFoot * TenThousand, v[2])
    IN  RoundRat(v[1] * ((InchesPerFoot * TenThousand) \div g), v[2] \div g)

\* |b - f| <= |c - f| and |b - f| = |c - f| for rationals b, c, f.
AbsDiffNum(b, f) == Abs(b[1] * f[2] - f[1] * b[2])
Nearer(b, c, f) == AbsDiffNum(b, f) * c[2] <= AbsDiffNum(c, f) * b[2]
SameDistance(b, c, f) == AbsDiffNum(b, f) * c[2] = AbsDiffNum(c, f) * b[2]

\* The end of Fraction.limit_denominator: the nearer of the two bounds, bound2
\* when they are equally near.  The float behind f is a little off f, so
\* when the bounds are equally near to f either can come out.
PickBound(p0, q0, p1, q1, f, max_denominator) ==
    LET k == (max_denominator - q0) \div q1
        bound1 == Frac(p0 + k * p1, q0 + k * q1)
        bound2 == Frac(p1, q1)
    IN  IF SameDistance(bound2, bound1, f) THEN {bound1, bound2}
        ELSE IF Nearer(bound2, bound1, f) THEN {bound2}
        ELSE {bound1}

\* The loop of Fraction.limit_denominator (continued fraction convergents).
RECURSIVE LimitLoop(_, _, _, _, _, _, _, _)
LimitLoop(p0, q0, p1, q1, n, d, f, max_denominator) ==
    LET a == n \div d
        q2 == q0 + a * q1
    IN  IF q2 > max_denominator THEN PickBound(p0, q0, p1, q1, f, max_denominator)
        ELSE LimitLoop(p1, q1, p0 + a * p1, q2, d, n - a * d, f, max_denominator)

\* Line 52: Fraction(frac).limit_denominator(precision).
LimitDenominator(f, max_denominator) ==
    IF f[2] <= max_denominator THEN {f}
    ELSE LimitLoop(0, 1, 1, 0, f[1], f[2], f, max_denominator)

\* Mutant: the fraction that rounded up to 1/1 is kept.
NoCarry(whole_inches, frac_rounded) == <<whole_inches, frac_rounded>>

\* Lines 54-56: <<whole_inches, frac_rounded>> after the carry.
Carry(whole_inches, frac_rounded) ==
    IF frac_rounded[1] = frac_rounded[2] THEN <<whole_inches + 1, <<0, 1>>>>
    ELSE <<whole_inches, frac_rounded>>

\* Lines 58-60: <<feet, whole_inches>> after the overflow.
Overflow(feet, whole_inches) ==
    IF whole_inches >= InchesPerFoot THEN <<feet + 1, whole_inches - InchesPerFoot>>
    ELSE <<feet, whole_inches>>

\* Lines 62-65: the text.
Render(feet, whole_inches, frac_rounded) ==
    LET frac_str == IF frac_rounded[1] # 0
                    THEN <<" ">> \o StrOf(frac_rounded[1]) \o <<"/">> \o StrOf(frac_rounded[2])
                    ELSE <<>>
        inch_str == IF whole_inches # 0 \/ frac_str # <<>>
                    THEN StrOf(whole_inches) \o frac_str \o <<"\"">>
                    ELSE <<>>
    IN  Strip(StrOf(feet) \o <<"'", " ">> \o inch_str)

\* Lines 48-65 for one outcome total_inches of the rounding of line 47 and one
\* outcome frac_rounded of line 52.
FormatParts(total_inches, frac_rounded) ==
    LET feet == total_inches \div (InchesPerFoot * TenThousand)
        inches == total_inches - feet * InchesPerFoot * TenThousand
        whole_inches == inches \div TenThousand
        carried == Carry(whole_inches, frac_rounded)
        over == Overflow(feet, carried[1])
    IN  [total_inches |-> total_inches,
         feet |-> over[1],
         whole_inches |-> over[2],
         frac |-> carried[2],
         text |-> Render(over[1], over[2], carried[2])]

\* The fractional inch of line 51, a rational.
FracOf(total_inches) == Frac(total_inches % TenThousand, TenThousand)

\* format_feet_inches(v, precision): every result the roundings allow.
format_feet_inches(v) ==
    {FormatParts(t, fr) : t \in TotalInches(v), fr \in
        UNION {LimitDenominator(FracOf(t), precision) : t \in TotalInches(v)}}

NoFormat == [total_inches |-> 0, feet |-> 0, whole_inches |-> 0, frac |-> <<0, 1>>, text |-> <<>>]

-----------------------------------------------------------------------------
\* Inputs of the parser and the formatter

MaxChunks == 3
MaxFeet == 12
MaxFormatFeet == 1

\* The pieces the parser's input texts are put together from.
Chunks ==
    {<<"0">>, <<"1">>, <<"2">>, <<"/">>, <<".">>, <<"'">>, <<"\"">>, <<" ">>, <<"x">>,
     <<"f", "t">>, <<"F", "T">>, <<"i", "n">>, <<"f", "e", "e", "t">>, <<"f", "o", "o", "t">>,
     <<"i", "n", "c", "h">>, <<"i", "n", "c", "h", "e", "s">>}

RECURSIVE ChunkTexts(_)
ChunkTexts(n) ==
    IF n = 0 THEN {<<>>}
    ELSE LET shorter == ChunkTexts(n - 1)
         IN  shorter \cup {t \o c : t \in shorter, c \in Chunks}

\* A canonical text: feet (-1: no feet term), whole inches (-1: none), a
\* fraction in lowest terms (<<0, 1>>: none) and whether the inch marker is
\* written.
Absent == 0 - 1
Denominators == {2, 4, 8, 16, 32}
Fractions == {<<0, 1>>} \cup {<<n, d>> \in (1..31) \X Denominators : n < d /\ n % 2 = 1}

Canons ==
    {c \in [feet : {Absent} \cup 0..MaxFeet, inches : {Absent} \cup 0..11,
            frac : Fractions, marker : BOOLEAN] :
        /\ ~(c.feet = Absent /\ c.inches = Absent /\ c.frac[1] = 0)
        /\ (c.inches = Absent /\ c.frac[1] = 0) => ~c.marker}

NoCanon == [feet |-> Absent, inches |-> Absent, frac |-> <<0, 1>>, marker |-> FALSE]

JoinBlank(a, b) == IF a = <<>> THEN b ELSE IF b = <<>> THEN a ELSE a \o <<" ">> \o b

CanonText(c) ==
    LET f == IF c.feet = Absent THEN <<>> ELSE StrOf(c.feet) \o <<"'">>
        i == IF c.inches = Absent THEN <<>> ELSE StrOf(c.inches)
        q == IF c.frac[1] = 0 THEN <<>> ELSE StrOf(c.frac[1]) \o <<"/">> \o StrOf(c.frac[2])
        m == IF c.marker THEN <<"\"">> ELSE <<>>
    IN  JoinBlank(f, JoinBlank(i, q)) \o m

\* The whole inches the formatter is tried on.
WholeInches == {0, 5, 11}

FormatInputs ==
    {(f * InchesPerFoot + w) * TenThousand + m :
        f \in 0..MaxFormatFeet, w \in WholeInches, m \in 0..(TenThousand - 1)}

-----------------------------------------------------------------------------
\* The runs of the parser and the formatter

\* parse_length(length_str)
ParseLength ==
    /\ pc = "text"
    /\ parsed' = parse_length(length_str, fraction_spaces)
    /\ pc' = IF parsed'.kind = "ok" THEN "parsed" ELSE "raised"
    /\ UNCHANGED <<length_str, fraction_spaces, value, formatted, reparsed, canon>>
    /\ UNCHANGED <<stock_length, kerf, cuts, cuts_with_kerf, bins, bin_usage,
                   best_fit_index, wastes, used_lengths, outcome, monoVars>>

\* format_feet_inches(parse_length(length_str))
FormatParsed ==
    /\ pc = "parsed"
    /\ value' = <<parsed.n, parsed.d>>
    /\ formatted' \in format_feet_inches(value')
    /\ pc' = "formatted"
    /\ UNCHANGED <<length_str, fraction_spaces, parsed, reparsed, canon>>
    /\ UNCHANGED <<stock_length, kerf, cuts, cuts_with_kerf, bins, bin_usage,
                   best_fit_index, wastes, used_lengths, outcome, monoVars>>

\* parse_length(format_feet_inches(parse_length(length_str)))
Reparse ==
    /\ pc = "formatted"
    /\ reparsed' = parse_length(formatted.text, fraction_spaces)
    /\ pc' = "reparsed"
    /\ UNCHANGED <<length_str, fraction_spaces, parsed, value, formatted, canon>>
    /\ UNCHANGED <<stock_length, kerf, cuts, cuts_with_kerf, bins, bin_usage,
                   best_fit_index, wastes, used_lengths, outcome, monoVars>>

\* format_feet_inches(value)
FormatValue ==
    /\ pc = "value"
    /\ formatted' \in format_feet_inches(value)
    /\ pc' = "formatted"
    /\ UNCHANGED <<length_str, fraction_spaces, parsed, value, reparsed, canon>>
    /\ UNCHANGED <<stock_length, kerf, cuts, cuts_with_kerf, bins, bin_usage,
                   best_fit_index, wastes, used_lengths, outcome, monoVars>>

-----------------------------------------------------------------------------
\* fit_cuts_to_stock

\* float('inf') of min_space_left; every real space left is compared below it.
Inf == -1
LessThanMin(x, m) == m = Inf \/ x < m

\* Mutant: the comparison of the cut with the space left is turned round.
FitsInverted(stock, used, cut_with_k, m) ==
    LET space_left == stock - used
    IN  cut_with_k >= space_left /\ LessThanMin(space_left - cut_with_k, m)

\* The condition of line 82 for bin i.
Fits(stock, used, cut_with_k, m) ==
    LET space_left == stock - used
    IN  cut_with_k <= space_left /\ LessThanMin(space_left - cut_with_k, m)

\* The scan of lines 80-84 from bin i on, with the running best_fit_index
\* (0 for -1) and min_space_left.
RECURSIVE Scan(_, _, _, _, _, _)
Scan(stock, usage, cut_with_k, i, best, m) ==
    IF i > Len(usage) THEN best
    ELSE IF Fits(stock, usage[i], cut_with_k, m)
         THEN Scan(stock, usage, cut_with_k, i + 1, i,
                   (stock - usage[i]) - cut_with_k)
         ELSE Scan(stock, usage, cut_with_k, i + 1, best, m)

\* Mutant: first fit, the lowest-index bin that can take the cut.
FirstFitIndex(stock, usage, cut_with_k) ==
    LET fitting == {i \in 1..Len(usage) : cut_with_k <= stock - usage[i]}
    IN  IF fitting = {} THEN 0 ELSE CHOOSE i \in fitting : \A j \in fitting : i <= j

BestFitIndex(stock, usage, cut_with_k) == Scan(stock, usage, cut_with_k, 1, 0, Inf)

\* Mutant: a new bin is put in front of the others.
PlaceInBinsFront(bs, b, original_cut) ==
    IF b = 0 THEN <<<<original_cut>>>> \o bs
    ELSE [bs EXCEPT ![b] = Append(@, original_cut)]

\* Mutant: the bins store cut + kerf.
PlaceInBinsWithKerf(bs, b, original_cut) ==
    IF b = 0 THEN Append(bs, <<original_cut + kerf>>)
    ELSE [bs EXCEPT ![b] = Append(@, original_cut + kerf)]

\* Lines 86-91: the new bins after placing original_cut in bin b (0: new bin).
PlaceInBins(bs, b, original_cut) ==
    IF b = 0 THEN Append(bs, <<original_cut>>)
    ELSE [bs EXCEPT ![b] = Append(@, original_cut)]

\* Mutant: = instead of += on line 91.
PlaceInUsageAssign(us, b, cut_with_k) ==
    IF b = 0 THEN Append(us, cut_with_k)
    ELSE [us EXCEPT ![b] = cut_with_k]

\* Lines 86-91: the new usages after placing cut_with_k in bin b (0: new bin).
PlaceInUsage(us, b, cut_with_k) ==
    IF b = 0 THEN Append(us, cut_with_k)
    ELSE [us EXCEPT ![b] = @ + cut_with_k]

\* Lines 70-74.
SortCuts ==
    /\ pc = "start"
    /\ cuts_with_kerf' = SortDesc([i \in 1..Len(cuts) |-> <<cuts[i] + kerf, cuts[i]>>])
    /\ bins' = <<>>
    /\ bin_usage' = <<>>
    /\ pc' = "loop"
    /\ UNCHANGED <<stock_length, kerf, cuts, best_fit_index, wastes, used_lengths, outcome>>
    /\ UNCHANGED <<monoVars, textVars>>

\* One iteration of the loop of lines 76-91.
PlaceCut ==
    /\ pc = "loop"
    /\ cuts_with_kerf # <<>>
    /\ LET cut_with_k == Head(cuts_with_kerf)[1]
           original_cut == Head(cuts_with_kerf)[2]
           b == BestFitIndex(stock_length, bin_usage, cut_with_k)
       IN  /\ best_fit_index' = b
           /\ bins' = PlaceInBins(bins, b, original_cut)
           /\ bin_usage' = PlaceInUsage(bin_usage, b, cut_with_k)
    /\ cuts_with_kerf' = Tail(cuts_with_kerf)
    /\ UNCHANGED <<pc, stock_length, kerf, cuts, wastes, used_lengths, outcome>>
    /\ UNCHANGED <<monoVars, textVars>>

\* Lines 93-95.
Return ==
    /\ pc = "loop"
    /\ cuts_with_kerf = <<>>
    /\ wastes' \in RoundAll([i \in 1..Len(bin_usage) |-> stock_length - bin_usage[i]])
    /\ used_lengths' \in RoundAll(bin_usage)
    /\ outcome' = "returned"
    /\ pc' = "done"
    /\ UNCHANGED <<stock_length, kerf, cuts, cuts_with_kerf, bins, bin_usage, best_fit_index>>
    /\ UNCHANGED <<monoVars, textVars>>

\* fit_cuts_to_stock run to its end: the loop of lines 76-91 on the sorted
\* list, from the bins bs with usages us.
RECURSIVE FitLoop(_, _, _, _)
FitLoop(stock, sorted, bs, us) ==
    IF sorted = <<>> THEN bs
    ELSE LET cut_with_k == Head(sorted)[1]
             original_cut == Head(sorted)[2]
             b == BestFitIndex(stock, us, cut_with_k)
         IN  FitLoop(stock, Tail(sorted), PlaceInBins(bs, b, original_cut),
                     PlaceInUsage(us, b, cut_with_k))

\* The bins fit_cuts_to_stock(stock, k, cs) returns.
fit_cuts_to_stock(stock, k, cs) ==
    FitLoop(stock, SortDesc([i \in 1..Len(cs) |-> <<cs[i] + k, cs[i]>>]), <<>>, <<>>)

\* The same kerf and cuts packed into a stock length and into a longer one.
FitBoth ==
    /\ pc = "mono"
    /\ bins' = fit_cuts_to_stock(stock_length, kerf, cuts)
    /\ wider_bins' = fit_cuts_to_stock(wider_stock, kerf, cuts)
    /\ pc' = "mono_done"
    /\ UNCHANGED <<stock_length, kerf, cuts, cuts_with_kerf, bin_usage, best_fit_index,
                   wastes, used_lengths, outcome, wider_stock, textVars>>

-----------------------------------------------------------------------------
\* Properties of fit_cuts_to_stock

\* Sum of (cut + kerf) over the cuts of one bin.
BinSum(b) == SumSeq(b) + kerf * Len(b)

Last(s) == s[Len(s)]

RECURSIVE Flatten(_)
Flatten(bs) == IF bs = <<>> THEN <<>> ELSE Head(bs) \o Flatten(Tail(bs))

Count(s, v) == Cardinality({i \in 1..Len(s) : s[i] = v})

Values(s) == {s[i] : i \in 1..Len(s)}

SameBag(s, t) == \A v \in Values(s) \cup Values(t) : Count(s, v) = Count(t, v)

InputInRange == stock_length > 0 /\ kerf >= 0 /\ \A i \in 1..Len(cuts) : cuts[i] <= stock_length

\* C1: after every placement the running bin_usage of every bin is the sum of
\* (cut + kerf) over the cuts of that bin, and in the returned result
\* used_lengths[i] is that sum and used_lengths[i] + wastes[i] is stock_length,
\* both within the 1e-4 rounding tolerance (Resolution ticks).
C1_SumInvariant ==
    /\ Len(bin_usage) = Len(bins)
    /\ \A i \in 1..Len(bins) : bin_usage[i] = BinSum(bins[i])
    /\ pc = "done" =>
          /\ Len(used_lengths) = Len(bins)
          /\ Len(wastes) = Len(bins)
          /\ \A i \in 1..Len(bins) :
                /\ Abs(used_lengths[i] - BinSum(bins[i])) <= Resolution
                /\ Abs(used_lengths[i] + wastes[i] - stock_length) <= Resolution

\* A finished run with several bins, a bin of several cuts, a kerf, and a
\* usage that the rounding changed.
C1_Witness ==
    /\ pc = "done"
    /\ kerf > 0
    /\ Len(bins) >= 2
    /\ \E i \in 1..Len(bins) : Len(bins[i]) >= 2
    /\ \E i \in 1..Len(bins) : used_lengths[i] # bin_usage[i]

IsSortedDesc(s) == \A i \in 1..(Len(s) - 1) : s[i][1] >= s[i + 1][1]

AllFit == \A i \in 1..Len(cuts) : cuts[i] <= stock_length
AllEqual == \A i, j \in 1..Len(cuts) : cuts[i] = cuts[j]

\* C2: for every kerf and cut list and stock lengths S1 < S2 with every cut
\* <= S1, the packing for S2 has no more bins than the packing for S1.
C2_Monotone ==
    (pc = "mono_done" /\ AllFit) => Len(wider_bins) <= Len(bins)

\* C2 as amended: the same for the cut lists whose cuts all have one length.
C2_MonotoneEqualCuts ==
    (pc = "mono_done" /\ AllFit /\ AllEqual) => Len(wider_bins) <= Len(bins)

\* Equal cuts with a kerf that need several pieces of the longer stock and
\* more pieces of the shorter.
C2_Witness ==
    /\ pc = "mono_done"
    /\ AllFit
    /\ AllEqual
    /\ kerf > 0
    /\ Len(cuts) >= 4
    /\ Len(wider_bins) >= 2
    /\ Len(bins) > Len(wider_bins)

\* One placement: where the cut at the head of the list goes.
C3_BestFitStep ==
    (pc = "loop" /\ cuts_with_kerf # <<>>) =>
        LET cut_with_k == Head(cuts_with_kerf)[1]
            original_cut == Head(cuts_with_kerf)[2]
            space(i) == stock_length - bin_usage[i]
            fitting == {i \in 1..Len(bin_usage) : space(i) >= cut_with_k}
        IN  /\ cut_with_k = original_cut + kerf
            /\ fitting = {} =>
                  /\ bins' = Append(bins, <<original_cut>>)
                  /\ bin_usage' = Append(bin_usage, cut_with_k)
            /\ fitting # {} =>
                  \E b \in fitting :
                      /\ \A j \in fitting : space(b) <= space(j)
                      /\ \A j \in fitting : space(j) = space(b) => b <= j
                      /\ bins' = [bins EXCEPT ![b] = Append(@, original_cut)]
                      /\ bin_usage' = [bin_usage EXCEPT ![b] = @ + cut_with_k]

\* The step that sorts: the list is the input, in descending order.
C3_SortStep ==
    pc = "start" =>
        /\ IsSortedDesc(cuts_with_kerf')
        /\ Len(cuts_with_kerf') = Len(cuts)
        /\ SameBag(cuts_with_kerf', [i \in 1..Len(cuts) |-> <<cuts[i] + kerf, cuts[i]>>])

\* C3: the cuts are processed in descending order of cut + kerf; a cut goes
\* to the open bin of smallest remaining space among those whose remaining
\* space is >= cut + kerf, the lowest index on a tie, and a new bin is opened
\* only when no open bin has that much space.
C3_BestFit ==
    /\ [](pc = "loop" => IsSortedDesc(cuts_with_kerf))
    /\ [][C3_SortStep /\ C3_BestFitStep]_vars

\* The last placement went to an existing bin although an earlier bin with
\* more remaining space could also take the cut.
C3_Witness ==
    /\ pc = "loop"
    /\ best_fit_index >= 2
    /\ LET b == best_fit_index
           placed == Last(bins[b]) + kerf
       IN  \E j \in 1..(b - 1) :
              /\ stock_length - bin_usage[j] >= placed
              /\ stock_length - bin_usage[j] > stock_length - bin_usage[b] + placed

\* C4: called with stock_length <= 0 the engine ends in an error and returns
\* no result.
C4_FailFast ==
    (pc = "done" /\ stock_length <= 0) => (outcome = "error" /\ bins = <<>>)

IsPrefix(s, t) == Len(s) <= Len(t) /\ SubSeq(t, 1, Len(s)) = s

\* A step of the loop leaves every bin where it is and only adds to it.
C8_BinsKeepPlace ==
    (pc = "loop") =>
        /\ Len(bins') >= Len(bins)
        /\ \A i \in 1..Len(bins) : IsPrefix(bins[i], bins'[i])

\* The cuts of a bin do not grow, and the returned lists are those of the bins.
C8_Described ==
    /\ \A i \in 1..Len(bins) :
          \A j \in 1..(Len(bins[i]) - 1) : bins[i][j] >= bins[i][j + 1]
    /\ pc = "done" =>
          /\ Len(wastes) = Len(bins)
          /\ Len(used_lengths) = Len(bins)
          /\ \A i \in 1..Len(bins) :
                /\ used_lengths[i] \in Round4(BinSum(bins[i]))
                /\ wastes[i] \in Round4(stock_length - BinSum(bins[i]))

\* C8: a bin keeps its index and its earlier cuts for the rest of the run,
\* wastes[i] and used_lengths[i] are those of bins[i], and the cuts inside a
\* bin are in non-increasing order whatever the order of the input.
C8_OutputOrder == []C8_Described /\ [][C8_BinsKeepPlace]_vars

\* A finished run on an input that was not in descending order, with several
\* bins and a bin holding two different lengths.
C8_Witness ==
    /\ pc = "done"
    /\ Len(bins) >= 2
    /\ \E i \in 1..(Len(cuts) - 1) : cuts[i] < cuts[i + 1]
    /\ \E i \in 1..Len(bins) : Len(bins[i]) >= 2 /\ bins[i][1] > Last(bins[i])

\* C9: with stock_length > 0, kerf >= 0 and every cut <= stock_length, every
\* returned bin has used_length <= stock_length and waste >= 0.
C9_Capacity ==
    (pc = "done" /\ InputInRange) =>
        \A i \in 1..Len(bins) :
            /\ bin_usage[i] <= stock_length
            /\ used_lengths[i] <= stock_length
            /\ wastes[i] >= 0

\* C10: the cuts found in the returned bins are exactly the input cuts, each
\* once and unaltered; no bin is empty; no cuts, no bins.
C10_Conservation ==
    pc = "done" =>
        /\ SameBag(Flatten(bins), cuts)
        /\ Len(Flatten(bins)) = Len(cuts)
        /\ \A i \in 1..Len(bins) : bins[i] # <<>>
        /\ (cuts = <<>> => bins = <<>>)

\* A finished run with a kerf, a repeated cut length and several bins.
C10_Witness ==
    /\ pc = "done"
    /\ kerf > 0
    /\ Len(bins) >= 2
    /\ \E i, j \in 1..Len(cuts) : i # j /\ cuts[i] = cuts[j]
    /\ \E i, j \in 1..Len(cuts) : cuts[i] # cuts[j]

-----------------------------------------------------------------------------
\* Properties of parse_length and format_feet_inches

\* The two grammars as the specification words them, matched in full: a bare
\* fraction a/b or a bare decimal; or optional feet, optional whole inches,
\* optional fraction and an optional trailing inch marker.
GrammarFractionRe == Cat(Plus(Dig), Cat(Lit("/"), Cat(Plus(Dig), Eos)))
GrammarDecimalRe == Cat(Star(Dig), Cat(Lit("."), Cat(Plus(Dig), Eos)))
GrammarGeneralRe ==
    Cat(Opt(Cat(Plus(Dig), Lit("'"))),
    Cat(Star(Ws),
    Cat(Opt(Plus(Dig)),
    Cat(Opt(Cat(Star(Ws), Cat(Plus(Dig), Cat(Lit("/"), Plus(Dig))))),
    Cat(Star(Ws),
    Cat(Opt(Lit("\"")), Eos))))))

InGrammar(s) ==
    \/ Match(GrammarFractionRe, s, StartState) # <<>>
    \/ Match(GrammarDecimalRe, s, StartState) # <<>>
    \/ Match(GrammarGeneralRe, s, StartState) # <<>>

\* C5: parse_length returns a length only for a text that, normalized, is
\* not empty, is not a lone marker and matches one of the two grammars in
\* full; for every other text it raises the parse error (ValueError).
C5_ParseError ==
    (pc \in {"parsed", "raised"}) =>
        LET s == Normalize(length_str)
            valid == s # <<>> /\ s # <<"\"">> /\ InGrammar(s)
        IN  ~valid => parsed.kind = "ValueError"

FeetOf(c) == IF c.feet = Absent THEN 0 ELSE c.feet
InchesOf(c) == IF c.inches = Absent THEN 0 ELSE c.inches

\* The text the formatter writes for feet, inches and fraction.
Written(c) ==
    CanonText([feet |-> FeetOf(c),
               inches |-> IF InchesOf(c) = 0 /\ c.frac[1] = 0 THEN Absent ELSE InchesOf(c),
               frac |-> c.frac,
               marker |-> ~(InchesOf(c) = 0 /\ c.frac[1] = 0)])

\* C6: for a canonical text (feet, whole inches 0..11, a fraction in lowest
\* terms with denominator 2..32, any of them left out),
\* format_feet_inches(parse_length(text), 32) shows the feet, whole inches
\* and fraction of the text, and parse_length of what it returns is the
\* length parse_length(text).
C6_RoundTrip ==
    /\ pc # "raised"
    /\ pc \in {"formatted", "reparsed"} =>
          /\ formatted.feet = FeetOf(canon)
          /\ formatted.whole_inches = InchesOf(canon)
          /\ formatted.frac = canon.frac
          /\ formatted.text = Written(canon)
    /\ pc = "reparsed" => (reparsed.kind = "ok" /\ reparsed = parsed)

\* What a text shows: the whole inches and the fraction that the groups of a
\* match m of the general pattern hold.
ShownInches(text, m) == IF Group(text, m, 2) = <<>> THEN 0 ELSE IntOf(Group(text, m, 2))
ShownFraction(text, m) ==
    LET g3 == Group(text, m, 3)
    IN  IF g3 = <<>> THEN <<0, 1>>
        ELSE <<IntOf(SubSeq(g3, 1, Find(g3, "/") - 1)),
               IntOf(SubSeq(g3, Find(g3, "/") + 1, Len(g3)))>>

\* C7: for a length of t ten-thousandths of an inch and precision 32 the
\* result never shows 12 or more whole inches nor a fraction n/n; when the
\* fractional inch is nearer to 1 than to 31/32 the whole inches go up by one
\* and the fraction is dropped, and when that makes 12 inches the feet go up
\* by one and the whole inches are 0; 11.9999 inches gives 1' and no inches.
C7_Carry ==
    pc = "formatted" =>
        LET t == formatted.total_inches
            feet0 == t \div (InchesPerFoot * TenThousand)
            whole0 == (t % (InchesPerFoot * TenThousand)) \div TenThousand
            up == 64 * (t % TenThousand) > 63 * TenThousand
            found == ReMatch(GeneralRe, formatted.text)
        IN  /\ value = Frac(t, InchesPerFoot * TenThousand)
            /\ formatted.whole_inches \in 0..11
            /\ formatted.frac[1] < formatted.frac[2]
            /\ found # <<>>
            /\ ShownInches(formatted.text, found[1]) = formatted.whole_inches
            /\ ShownFraction(formatted.text, found[1]) = formatted.frac
            /\ up => /\ formatted.frac = <<0, 1>>
                     /\ formatted.whole_inches = (whole0 + 1) % InchesPerFoot
                     /\ formatted.feet = feet0 + (IF whole0 = 11 THEN 1 ELSE 0)
            /\ ~up => /\ formatted.whole_inches = whole0
                      /\ formatted.feet = feet0
            /\ t = 119999 => formatted.text = <<"1", "'">>

\* 11.9999 inches, formatted.
C7_Witness ==
    /\ pc = "formatted"
    /\ formatted.total_inches = 119999
    /\ formatted.feet = 1
    /\ formatted.whole_inches = 0

-----------------------------------------------------------------------------
RECURSIVE SeqsUpTo(_, _)
SeqsUpTo(S, n) ==
    IF n = 0 THEN {<<>>}
    ELSE LET shorter == SeqsUpTo(S, n - 1)
         IN  shorter \cup {Append(s, x) : s \in shorter, x \in S}

NoPack ==
    /\ stock_length = 0
    /\ kerf = 0
    /\ cuts = <<>>
    /\ cuts_with_kerf = <<>>
    /\ bins = <<>>
    /\ bin_usage = <<>>
    /\ best_fit_index = 0
    /\ wastes = <<>>
    /\ used_lengths = <<>>
    /\ outcome = "none"

NoMono ==
    /\ wider_stock = 0
    /\ wider_bins = <<>>

NoText ==
    /\ length_str = <<>>
    /\ fraction_spaces = FALSE
    /\ parsed = Raised("none")
    /\ value = <<0, 1>>
    /\ formatted = NoFormat
    /\ reparsed = Raised("none")
    /\ canon = NoCanon

PackInit ==
    /\ pc = "start"
    /\ stock_length \in (0 - 1)..MaxStock
    /\ kerf \in 0..MaxKerf
    /\ cuts \in SeqsUpTo(CutSizes, MaxCuts)
    /\ cuts_with_kerf = <<>>
    /\ bins = <<>>
    /\ bin_usage = <<>>
    /\ best_fit_index = 0
    /\ wastes = <<>>
    /\ used_lengths = <<>>
    /\ outcome = "none"
    /\ NoMono
    /\ NoText

Init == PackInit

Next == SortCuts \/ PlaceCut \/ Return

Spec == Init /\ [][Next]_vars

\* Two runs of the packing for one kerf and one list of cuts.
MaxMonoStock == 29
MaxWiden == 1
MaxUniform == 6

\* A list of cuts on which best fit decreasing needs 4 bins of 29 and 5 of 30.
AnomalyCuts == <<15, 15, 15, 12, 9, 9, 8, 8, 7, 6, 5, 5>>

MonoCuts ==
    {[i \in 1..n |-> c] : n \in 0..MaxUniform, c \in CutSizes}
        \cup {SubSeq(AnomalyCuts, 1, n) : n \in 0..Len(AnomalyCuts)}
        \cup SeqsUpTo(CutSizes, MaxCuts)

MonoInit ==
    /\ pc = "mono"
    /\ stock_length \in 1..MaxMonoStock
    /\ wider_stock \in (stock_length + 1)..(stock_length + MaxWiden)
    /\ kerf \in 0..MaxKerf
    /\ cuts \in MonoCuts
    /\ cuts_with_kerf = <<>>
    /\ bins = <<>>
    /\ bin_usage = <<>>
    /\ best_fit_index = 0
    /\ wastes = <<>>
    /\ used_lengths = <<>>
    /\ outcome = "none"
    /\ wider_bins = <<>>
    /\ NoText

MonoNext == FitBoth

SpecMono == MonoInit /\ [][MonoNext]_vars

\* The parser on texts put together from at most MaxChunks chunks.
ParseInit ==
    /\ pc = "text"
    /\ NoPack
    /\ NoMono
    /\ length_str \in ChunkTexts(MaxChunks)
    /\ fraction_spaces \in BOOLEAN
    /\ parsed = Raised("none")
    /\ value = <<0, 1>>
    /\ formatted = NoFormat
    /\ reparsed = Raised("none")
    /\ canon = NoCanon

ParseNext == ParseLength

SpecParse == ParseInit /\ [][ParseNext]_vars

\* Parser, formatter and parser again on the canonical texts.
RoundTripInit ==
    /\ pc = "text"
    /\ NoPack
    /\ NoMono
    /\ canon \in Canons
    /\ length_str = CanonText(canon)
    /\ fraction_spaces \in BOOLEAN
    /\ parsed = Raised("none")
    /\ value = <<0, 1>>
    /\ formatted = NoFormat
    /\ reparsed = Raised("none")

RoundTripNext == ParseLength \/ FormatParsed \/ Reparse

SpecRoundTrip == RoundTripInit /\ [][RoundTripNext]_vars

\* The formatter on lengths given in ten-thousandths of an inch.
FormatInit ==
    /\ pc = "value"
    /\ NoPack
    /\ NoMono
    /\ length_str = <<>>
    /\ fraction_spaces = FALSE
    /\ parsed = Raised("none")
    /\ value \in {Frac(t, InchesPerFoot * TenThousand) : t \in FormatInputs}
    /\ formatted = NoFormat
    /\ reparsed = Raised("none")
    /\ canon = NoCanon

FormatNext == FormatValue

SpecFormat == FormatInit /\ [][FormatNext]_vars

====
